---- MODULE Spec2Model ----
(***************************************************************************)
(* Model of bb8-rusqlite: RusqliteConnectionManager, the                   *)
(* bb8::ManageConnection implementation for rusqlite::Connection           *)
(* (src/src/lib.rs), together with the collaborators its three operations  *)
(* are written against: the rusqlite driver (open*, execute, query_row),   *)
(* the tokio runtime (spawn_blocking, block_in_place, JoinError, task      *)
(* cancellation) and the bb8 pool that checks handles out and back in      *)
(* (src/src/tests.rs).                                                     *)
(***************************************************************************)
EXTENDS Integers, FiniteSets, Sequences, TLC

\* ---------------------------------------------------------------- bounds
NumTasks == 2
MaxConnects == 2
MaxWorkerThreads == 2

Tasks == 1..NumTasks
ConnIds == 1..MaxConnects

\* ------------------------------------------------------- driver vocabulary
\* The value the tests insert and read back.
Values == {42}

\* rusqlite::OpenFlags combinations sqlite3_open_v2 accepts.
FlagConfigs == {{"READ_ONLY"}, {"READ_WRITE"}, {"READ_WRITE", "CREATE"}}

\* Flags rusqlite::Connection::open() uses (OpenFlags::default()).
DefaultFlags == {"READ_WRITE", "CREATE"}

VfsNames == {"unix", "nosuchvfs"}
RegisteredVfs == {"unix"}

DbPath == "t.db"
MemoryPath == ":memory:"

\* ------------------------------------------------------------ constructors
\* RusqliteConnectionManager::new(path)
new(path) ==
    [mode |-> "Plain", path |-> path, flags |-> {}, vfs |-> ""]

new_with_flags_stale(path, flags) ==
    [mode |-> "WithFlags", path |-> path, flags |-> DefaultFlags, vfs |-> ""]

\* RusqliteConnectionManager::new_with_flags(path, flags)
new_with_flags(path, flags) ==
    [mode |-> "WithFlags", path |-> path, flags |-> flags, vfs |-> ""]

\* RusqliteConnectionManager::new_with_flags_and_vfs(path, flags, vfs)
new_with_flags_and_vfs(path, flags, vfs) ==
    [mode |-> "WithFlagsAndVFS", path |-> path, flags |-> flags, vfs |-> vfs]

\* The constructor calls a program can make for the one database location.
CtorInputs ==
    {[ctor |-> "new", flags |-> {}, vfs |-> ""]}
    \cup {[ctor |-> "new_with_flags", flags |-> f, vfs |-> ""] : f \in FlagConfigs}
    \cup {[ctor |-> "new_with_flags_and_vfs", flags |-> f, vfs |-> v] :
              f \in FlagConfigs, v \in VfsNames}

Construct(g) ==
    CASE g.ctor = "new" -> new(DbPath)
      [] g.ctor = "new_with_flags" -> new_with_flags(DbPath, g.flags)
      [] OTHER -> new_with_flags_and_vfs(DbPath, g.flags, g.vfs)

\* ------------------------------------------------------------------ driver
NoCall == [fn |-> "none", path |-> "", flags |-> {}, vfs |-> ""]

\* The flags a driver call opens the database with.
EffectiveFlags(call) == IF call.fn = "open" THEN DefaultFlags ELSE call.flags

\* rusqlite::Connection::open*(): "Ok" or "Err".  An unregistered VFS is
\* rejected; a file that does not exist is only opened when CREATE is given;
\* an in-memory database always opens.
DriverOpen(call, exists) ==
    IF call.fn = "open_with_flags_and_vfs" /\ call.vfs \notin RegisteredVfs
    THEN "Err"
    ELSE IF call.path = MemoryPath THEN "Ok"
    ELSE IF ~exists /\ "CREATE" \notin EffectiveFlags(call) THEN "Err"
    ELSE "Ok"

\* Statements a caller runs: execute() of an INSERT, query_row() of a SELECT.
\* The liveness probe is execute() of "SELECT 1".
Stmts == {[kind |-> "write", v |-> v] : v \in Values} \cup {[kind |-> "read", v |-> 0]}
ProbeStmt == [kind |-> "select1", v |-> 0]

\* Whether stepping the statement yields a row.
ReturnsRows(s) == s.kind \in {"read", "select1"}

\* rusqlite::Connection::execute(): "Ok" or the rusqlite::Error it returns.
\* Statement::execute fails when the connection no longer accepts commands,
\* when the statement writes through a read-only connection, and when the
\* executed statement returns rows (Error::ExecuteReturnedResults).
DriverExecute(hr, s) ==
    IF ~hr.accepting THEN "Err"
    ELSE IF s.kind = "write" /\ "READ_ONLY" \in hr.flags THEN "Err"
    ELSE IF ReturnsRows(s) THEN "Err"
    ELSE "Ok"

\* rusqlite::Connection::query_row() of a SELECT.
DriverQuery(hr, s) == IF ~hr.accepting THEN "Err" ELSE "Ok"

\* --------------------------------------------------------------- the core
OpenCall_NoFlags(o) ==
    CASE o.mode = "Plain" ->
            [fn |-> "open", path |-> o.path, flags |-> {}, vfs |-> ""]
      [] o.mode = "WithFlags" ->
            [fn |-> "open", path |-> o.path, flags |-> {}, vfs |-> ""]
      [] OTHER ->
            [fn |-> "open_with_flags_and_vfs", path |-> o.path,
             flags |-> DefaultFlags, vfs |-> o.vfs]

OpenCall_NoVfs(o) ==
    CASE o.mode = "Plain" ->
            [fn |-> "open", path |-> o.path, flags |-> {}, vfs |-> ""]
      [] OTHER ->
            [fn |-> "open_with_flags", path |-> o.path,
             flags |-> o.flags, vfs |-> ""]

OpenCall_Memory(o) ==
    [fn |-> "open", path |-> MemoryPath, flags |-> {}, vfs |-> ""]

\* connect(): the match on options.mode inside the spawn_blocking closure.
OpenCall(o) ==
    CASE o.mode = "Plain" ->
            [fn |-> "open", path |-> o.path, flags |-> {}, vfs |-> ""]
      [] o.mode = "WithFlags" ->
            [fn |-> "open_with_flags", path |-> o.path,
             flags |-> o.flags, vfs |-> ""]
      [] OTHER ->
            [fn |-> "open_with_flags_and_vfs", path |-> o.path,
             flags |-> o.flags, vfs |-> o.vfs]

ConnectResult_Swapped(join) ==
    IF join.joined = "JoinError" THEN "Rusqlite"
    ELSE IF join.inner = "Err" THEN "TokioJoin"
    ELSE "Ok"

\* connect(): Ok(spawn_blocking(..).await??).  The first ? turns a JoinError
\* into Error::TokioJoin, the second a rusqlite::Error into Error::Rusqlite.
ConnectResult(join) ==
    IF join.joined = "JoinError" THEN "TokioJoin"
    ELSE IF join.inner = "Err" THEN "Rusqlite"
    ELSE "Ok"

\* is_valid(): block_in_place(|| conn.execute("SELECT 1", []))?; Ok(())
IsValidResult(exec) == IF exec = "Err" THEN "Rusqlite" ELSE "Ok"

has_broken_closed(hr) == ~hr.accepting

\* has_broken(): false.
has_broken(hr) == FALSE

\* ------------------------------------------------------------------ threads
\* spawn_blocking runs the closure on a thread of the blocking pool, none of
\* which is a scheduler thread.
BlockingThread(c) == MaxWorkerThreads + c

WorkerThread_InPlace(c, caller) == caller

\* connect(): the thread the open runs on.
WorkerThread(c, caller) == BlockingThread(c)

\* ------------------------------------------------------------------- state
VARIABLES
    given,      \* the constructor call that built the manager
    options,    \* Arc<ConnectionOptions>, shared by every clone of the manager
    rt,         \* the tokio runtime: [flavor, workers]
    fileExists, \* whether the database file at options.path exists
    rows,       \* the values committed to table t of that file
    written,    \* the values whose INSERT returned Ok, through any handle
    nconn,      \* connect() calls made so far
    conn,       \* per connect() call: its spawn_blocking worker
    h,          \* per connect() call: the Connection it produced, if any
    pc,         \* per task: where it is
    cur,        \* per task: the connect() call or handle it is working with
    thread,     \* per task: the scheduler thread it is running on
    op,         \* per task: the statement in progress
    snap,       \* per task: what was committed when its read began
    res,        \* per task: the result of its last operation
    hb          \* per task: the last has_broken() answer it got

vars == <<given, options, rt, fileExists, rows, written, nconn, conn, h,
          pc, cur, thread, op, snap, res, hb>>

RuntimeConfigs ==
    {[flavor |-> "current_thread", workers |-> 1]}
    \cup {[flavor |-> "multi_thread", workers |-> n] : n \in 1..MaxWorkerThreads}

SchedThreads == 1..rt.workers

NoConn ==
    [st |-> "unused", caller |-> 0, dedicated |-> FALSE, ncalls |-> 0,
     call |-> NoCall, found |-> "unknown", open |-> "none", cancelled |-> "no"]

NoHandle ==
    [custody |-> "none", owner |-> 0, flags |-> {}, loc |-> "",
     accepting |-> FALSE, priv |-> {}, busy |-> {}, destroyedBy |-> "none",
     dedicated |-> FALSE]

NoRes ==
    [op |-> "none", kind |-> "none", drv |-> "none", live |-> FALSE,
     seen |-> {}, snap |-> {}, id |-> 0]
NoHb == [called |-> FALSE, result |-> FALSE, id |-> 0, afterInvalid |-> FALSE]

Init ==
    /\ given \in CtorInputs
    /\ options = Construct(given)
    /\ rt \in RuntimeConfigs
    /\ fileExists \in BOOLEAN
    /\ rows = {}
    /\ written = {}
    /\ nconn = 0
    /\ conn = [c \in ConnIds |-> NoConn]
    /\ h = [c \in ConnIds |-> NoHandle]
    /\ pc = [t \in Tasks |-> "idle"]
    /\ cur = [t \in Tasks |-> 0]
    /\ thread = [t \in Tasks |-> 1]
    /\ op = [t \in Tasks |-> ProbeStmt]
    /\ snap = [t \in Tasks |-> {}]
    /\ res = [t \in Tasks |-> NoRes]
    /\ hb = [t \in Tasks |-> NoHb]

\* What a SELECT through the handle sees: the file's committed rows, or the
\* connection's own database when it was opened in memory.
VisibleRows(hr) == IF hr.loc = MemoryPath THEN hr.priv ELSE rows

JoinOutcome(cr) ==
    [joined |-> IF cr.st = "aborted" THEN "JoinError" ELSE "Ok", inner |-> cr.open]

IdleHandles == {c \in ConnIds : h[c].custody = "idle"}

\* ------------------------------------------------------- connect(), caller
\* connect() up to its await: clone the Arc, spawn_blocking the open.
Connect(t, ded) ==
    /\ pc[t] = "idle"
    /\ nconn < MaxConnects
    /\ LET c == nconn + 1 IN
        /\ nconn' = c
        /\ conn' = [conn EXCEPT ![c] =
                [NoConn EXCEPT !.st = "queued", !.caller = t, !.dedicated = ded]]
        /\ cur' = [cur EXCEPT ![t] = c]
    /\ pc' = [pc EXCEPT ![t] = "awaiting"]
    /\ res' = [res EXCEPT ![t] = NoRes]
    /\ UNCHANGED <<given, options, rt, fileExists, rows, written, h, thread, op, snap, hb>>

\* pool.get() with no idle connection: the pool asks the manager for one.
PoolGetConnect(t) ==
    /\ IdleHandles = {}
    /\ Connect(t, FALSE)

\* pool.dedicated_connection(): connect() outside the pool.
DedicatedConnection(t) == Connect(t, TRUE)

\* ------------------------------------------------------- connect(), worker
\* The blocking pool starts the closure: one driver call, chosen by the mode.
WorkerStart(c) ==
    /\ conn[c].st = "queued"
    /\ LET th == WorkerThread(c, thread[conn[c].caller]) IN
        /\ conn' = [conn EXCEPT ![c].st = "running",
                                ![c].call = OpenCall(options),
                                ![c].ncalls = @ + 1]
        /\ h' = [h EXCEPT ![c].custody = "opening",
                          ![c].busy = {<<"open", th>>}]
    /\ UNCHANGED <<given, options, rt, fileExists, rows, written, nconn,
                   pc, cur, thread, op, snap, res, hb>>

\* The driver call returns; the closure returns its Result.
WorkerFinish(c) ==
    /\ conn[c].st = "running"
    /\ LET call == conn[c].call
           out == DriverOpen(call, fileExists)
       IN
        /\ conn' = [conn EXCEPT ![c].st = "done", ![c].open = out,
                                ![c].found = IF fileExists THEN "yes" ELSE "no"]
        /\ IF out = "Ok"
           THEN /\ h' = [h EXCEPT ![c] =
                        [NoHandle EXCEPT
                            !.custody = IF conn[c].cancelled # "no" THEN "orphan" ELSE "result",
                            !.flags = EffectiveFlags(call),
                            !.loc = call.path,
                            !.accepting = TRUE,
                            !.dedicated = conn[c].dedicated]]
                /\ fileExists' = (fileExists \/ call.path = DbPath)
           ELSE /\ h' = [h EXCEPT ![c] = NoHandle]
                /\ UNCHANGED fileExists
    /\ UNCHANGED <<given, options, rt, rows, written, nconn, pc, cur, thread, op, snap, res, hb>>

\* The worker panics, or the runtime cancels it before it ran: a JoinError.
WorkerAbort(c) ==
    /\ conn[c].st \in {"queued", "running"}
    /\ conn' = [conn EXCEPT ![c].st = "aborted"]
    /\ h' = [h EXCEPT ![c] = NoHandle]
    /\ UNCHANGED <<given, options, rt, fileExists, rows, written, nconn,
                   pc, cur, thread, op, snap, res, hb>>

\* connect() after its await: `??` and Ok(..).
ConnectReturn(t) ==
    /\ pc[t] = "awaiting"
    /\ conn[cur[t]].st \in {"done", "aborted"}
    /\ LET c == cur[t]
           kind == ConnectResult(JoinOutcome(conn[c]))
       IN
        /\ res' = [res EXCEPT ![t] =
                [NoRes EXCEPT !.op = "connect", !.kind = kind, !.drv = conn[c].open, !.id = c]]
        /\ IF kind = "Ok"
           THEN /\ h' = [h EXCEPT ![c].custody = "task", ![c].owner = t]
                /\ pc' = [pc EXCEPT ![t] = "holding"]
                /\ UNCHANGED cur
           ELSE /\ pc' = [pc EXCEPT ![t] = "idle"]
                /\ cur' = [cur EXCEPT ![t] = 0]
                /\ UNCHANGED h
    /\ UNCHANGED <<given, options, rt, fileExists, rows, written, nconn, conn, thread, op, snap, hb>>

Cancel_Abort(t) ==
    /\ pc[t] = "awaiting"
    /\ LET c == cur[t] IN
        /\ conn' = [conn EXCEPT ![c].cancelled =
                                    IF conn[c].st \in {"queued", "running"}
                                    THEN "in_flight" ELSE "joined",
                                ![c].st = IF @ \in {"queued", "running"} THEN "aborted" ELSE @]
        /\ h' = [h EXCEPT ![c] = IF @.custody = "result"
                                 THEN [@ EXCEPT !.custody = "orphan"]
                                 ELSE NoHandle]
    /\ pc' = [pc EXCEPT ![t] = "cancelled"]
    /\ cur' = [cur EXCEPT ![t] = 0]
    /\ UNCHANGED <<given, options, rt, fileExists, rows, written, nconn, thread, op, snap, res, hb>>

\* The task awaiting connect() is cancelled: its future, and the JoinHandle in
\* it, are dropped.  Nothing in connect() reaches the worker.
Cancel(t) ==
    /\ pc[t] = "awaiting"
    /\ LET c == cur[t] IN
        /\ conn' = [conn EXCEPT ![c].cancelled =
                                    IF conn[c].st \in {"queued", "running"}
                                    THEN "in_flight" ELSE "joined"]
        /\ h' = [h EXCEPT ![c].custody = IF @ = "result" THEN "orphan" ELSE @]
    /\ pc' = [pc EXCEPT ![t] = "cancelled"]
    /\ cur' = [cur EXCEPT ![t] = 0]
    /\ UNCHANGED <<given, options, rt, fileExists, rows, written, nconn, thread, op, snap, res, hb>>

\* The runtime discards the output of a worker nobody is joined to.
RuntimeDrop(c) ==
    /\ h[c].custody = "orphan"
    /\ h' = [h EXCEPT ![c].custody = "destroyed", ![c].destroyedBy = "runtime"]
    /\ UNCHANGED <<given, options, rt, fileExists, rows, written, nconn, conn,
                   pc, cur, thread, op, snap, res, hb>>

\* ------------------------------------------------------------- the pool
\* pool.get() with an idle connection: check it out, then test it.
PoolGetIdle(t, c) ==
    /\ pc[t] = "idle"
    /\ h[c].custody = "idle"
    /\ h' = [h EXCEPT ![c].custody = "task", ![c].owner = t]
    /\ pc' = [pc EXCEPT ![t] = "checking"]
    /\ cur' = [cur EXCEPT ![t] = c]
    /\ res' = [res EXCEPT ![t] = NoRes]
    /\ UNCHANGED <<given, options, rt, fileExists, rows, written, nconn, conn, thread, op, snap, hb>>

IsValidBegin_Detached(t) ==
    /\ pc[t] = "checking"
    /\ rt.flavor = "multi_thread"
    /\ h' = [h EXCEPT ![cur[t]].busy = @ \cup {<<"probe", thread[t]>>}]
    /\ pc' = [pc EXCEPT ![t] = "holding"]
    /\ UNCHANGED <<given, options, rt, fileExists, rows, written, nconn, conn, cur, thread, op, snap, res, hb>>

IsValidBegin_Spawned(t) ==
    /\ pc[t] = "checking"
    /\ rt.flavor = "multi_thread"
    /\ h' = [h EXCEPT ![cur[t]].busy = @ \cup {<<"probe", BlockingThread(cur[t])>>}]
    /\ pc' = [pc EXCEPT ![t] = "probing"]
    /\ UNCHANGED <<given, options, rt, fileExists, rows, written, nconn, conn, cur, thread, op, snap, res, hb>>

\* is_valid(): block_in_place runs the probe on the calling task's thread.
IsValidBegin(t) ==
    /\ pc[t] = "checking"
    /\ rt.flavor = "multi_thread"
    /\ h' = [h EXCEPT ![cur[t]].busy = @ \cup {<<"probe", thread[t]>>}]
    /\ pc' = [pc EXCEPT ![t] = "probing"]
    /\ UNCHANGED <<given, options, rt, fileExists, rows, written, nconn, conn, cur, thread, op, snap, res, hb>>

\* is_valid() on a current_thread runtime: block_in_place panics, and the
\* unwinding drops the pooled connection.
IsValidPanic(t) ==
    /\ pc[t] = "checking"
    /\ rt.flavor = "current_thread"
    /\ pc' = [pc EXCEPT ![t] = "unwinding"]
    /\ UNCHANGED <<given, options, rt, fileExists, rows, written, nconn, conn, h, cur, thread, op, snap, res, hb>>

\* is_valid(): conn.execute("SELECT 1", []) returns; `?` and Ok(()).
IsValidEnd(t) ==
    /\ pc[t] = "probing"
    /\ LET c == cur[t]
           out == DriverExecute(h[c], ProbeStmt)
           kind == IsValidResult(out)
       IN
        /\ res' = [res EXCEPT ![t] =
                [NoRes EXCEPT !.op = "is_valid", !.kind = kind, !.drv = out,
                              !.live = h[c].accepting, !.id = c]]
        /\ h' = [h EXCEPT ![c].busy = {b \in @ : b[1] # "probe"}]
        /\ pc' = [pc EXCEPT ![t] = IF kind = "Ok" THEN "holding" ELSE "invalid"]
    /\ UNCHANGED <<given, options, rt, fileExists, rows, written, nconn, conn, cur, thread, op, snap, hb>>

\* The pool drops a connection whose is_valid() failed.
Discard(t) ==
    /\ pc[t] = "invalid"
    /\ h' = [h EXCEPT ![cur[t]].custody = "destroyed", ![cur[t]].owner = 0,
                      ![cur[t]].destroyedBy = "invalid"]
    /\ pc' = [pc EXCEPT ![t] = "idle"]
    /\ cur' = [cur EXCEPT ![t] = 0]
    /\ res' = [res EXCEPT ![t] = NoRes]
    /\ hb' = [hb EXCEPT ![t] = NoHb]
    /\ UNCHANGED <<given, options, rt, fileExists, rows, written, nconn, conn, thread, op, snap>>

\* has_broken() as the holder of a pooled connection calls it: when the
\* connection is being returned, and on a connection whose is_valid() failed.
HasBroken(t) ==
    /\ pc[t] \in {"holding", "unwinding", "invalid"}
    /\ ~h[cur[t]].dedicated
    /\ hb' = [hb EXCEPT ![t] = [called |-> TRUE, result |-> has_broken(h[cur[t]]),
                                id |-> cur[t], afterInvalid |-> pc[t] = "invalid"]]
    /\ pc' = [pc EXCEPT ![t] = CASE pc[t] = "holding" -> "returning"
                                 [] pc[t] = "unwinding" -> "unwound"
                                 [] OTHER -> "invalid"]
    /\ UNCHANGED <<given, options, rt, fileExists, rows, written, nconn, conn, h, cur, thread, op, snap, res>>

\* The pool takes a returned connection back, unless has_broken() said true.
PutBack(t) ==
    /\ pc[t] \in {"returning", "unwound"}
    /\ h' = [h EXCEPT ![cur[t]] =
                IF hb[t].result
                THEN [@ EXCEPT !.custody = "destroyed", !.owner = 0, !.destroyedBy = "broken"]
                ELSE [@ EXCEPT !.custody = "idle", !.owner = 0]]
    /\ pc' = [pc EXCEPT ![t] = IF pc[t] = "returning" THEN "idle" ELSE "panicked"]
    /\ cur' = [cur EXCEPT ![t] = 0]
    /\ res' = [res EXCEPT ![t] = NoRes]
    /\ hb' = [hb EXCEPT ![t] = NoHb]
    /\ UNCHANGED <<given, options, rt, fileExists, rows, written, nconn, conn, thread, op, snap>>

\* The holder of a dedicated connection drops it, which closes it.
Close(t) ==
    /\ pc[t] = "holding"
    /\ h[cur[t]].dedicated
    /\ h' = [h EXCEPT ![cur[t]].custody = "destroyed", ![cur[t]].owner = 0,
                      ![cur[t]].destroyedBy = "caller"]
    /\ pc' = [pc EXCEPT ![t] = "idle"]
    /\ cur' = [cur EXCEPT ![t] = 0]
    /\ UNCHANGED <<given, options, rt, fileExists, rows, written, nconn, conn, thread, op, snap, res, hb>>

\* ------------------------------------------------------------ the caller
\* The holder starts a statement on its connection.
ExecBegin(t, s) ==
    /\ pc[t] = "holding"
    /\ op' = [op EXCEPT ![t] = s]
    /\ snap' = [snap EXCEPT ![t] = written]
    /\ h' = [h EXCEPT ![cur[t]].busy = @ \cup {<<"stmt", thread[t]>>}]
    /\ pc' = [pc EXCEPT ![t] = "executing"]
    /\ res' = [res EXCEPT ![t] = NoRes]
    /\ UNCHANGED <<given, options, rt, fileExists, rows, written, nconn, conn, cur, thread, hb>>

\* The statement returns: an INSERT commits its value, a SELECT reads the rows.
ExecEnd(t) ==
    /\ pc[t] = "executing"
    /\ LET c == cur[t]
           s == op[t]
           out == IF s.kind = "write" THEN DriverExecute(h[c], s) ELSE DriverQuery(h[c], s)
           wrote == s.kind = "write" /\ out = "Ok"
           hw == IF wrote /\ h[c].loc = MemoryPath
                 THEN [h[c] EXCEPT !.priv = @ \cup {s.v}] ELSE h[c]
       IN
        /\ rows' = IF wrote /\ h[c].loc # MemoryPath THEN rows \cup {s.v} ELSE rows
        /\ written' = IF wrote THEN written \cup {s.v} ELSE written
        /\ h' = [h EXCEPT ![c] = [hw EXCEPT !.busy = {b \in @ : b[1] # "stmt"}]]
        /\ res' = [res EXCEPT ![t] =
                [op |-> s.kind, kind |-> IF out = "Ok" THEN "Ok" ELSE "Rusqlite",
                 drv |-> out, live |-> h[c].accepting,
                 seen |-> IF s.kind = "read" /\ out = "Ok" THEN VisibleRows(h[c]) ELSE {},
                 snap |-> IF s.kind = "read" /\ out = "Ok" THEN snap[t] ELSE {},
                 id |-> c]]
        /\ op' = [op EXCEPT ![t] = ProbeStmt]
        /\ snap' = [snap EXCEPT ![t] = {}]
    /\ pc' = [pc EXCEPT ![t] = "holding"]
    /\ UNCHANGED <<given, options, rt, fileExists, nconn, conn, cur, thread, hb>>

\* ------------------------------------------------------- the environment
\* The connection stops accepting commands (an I/O error, a damaged file).
DriverFault(c) ==
    /\ h[c].custody \in {"task", "idle"}
    /\ h[c].accepting
    /\ h[c].busy = {}
    /\ h' = [h EXCEPT ![c].accepting = FALSE]
    /\ UNCHANGED <<given, options, rt, fileExists, rows, written, nconn, conn,
                   pc, cur, thread, op, snap, res, hb>>

\* The scheduler resumes a task on another of its threads.
Migrate(t, th) ==
    /\ pc[t] \in {"idle", "awaiting"}
    /\ th \in SchedThreads \ {thread[t]}
    /\ thread' = [thread EXCEPT ![t] = th]
    /\ UNCHANGED <<given, options, rt, fileExists, rows, written, nconn, conn, h,
                   pc, cur, op, snap, res, hb>>

Next ==
    \/ \E t \in Tasks : PoolGetConnect(t)
    \/ \E t \in Tasks : DedicatedConnection(t)
    \/ \E c \in ConnIds : WorkerStart(c)
    \/ \E c \in ConnIds : WorkerFinish(c)
    \/ \E c \in ConnIds : WorkerAbort(c)
    \/ \E t \in Tasks : ConnectReturn(t)
    \/ \E t \in Tasks : Cancel(t)
    \/ \E c \in ConnIds : RuntimeDrop(c)
    \/ \E t \in Tasks, c \in ConnIds : PoolGetIdle(t, c)
    \/ \E t \in Tasks : IsValidBegin(t)
    \/ \E t \in Tasks : IsValidPanic(t)
    \/ \E t \in Tasks : IsValidEnd(t)
    \/ \E t \in Tasks : Discard(t)
    \/ \E t \in Tasks : HasBroken(t)
    \/ \E t \in Tasks : PutBack(t)
    \/ \E t \in Tasks : Close(t)
    \/ \E t \in Tasks, s \in Stmts : ExecBegin(t, s)
    \/ \E t \in Tasks : ExecEnd(t)
    \/ \E c \in ConnIds : DriverFault(c)
    \/ \E t \in Tasks, th \in 1..MaxWorkerThreads : Migrate(t, th)

Spec == Init /\ [][Next]_vars

\* ================================================================ claims
Connected == {c \in ConnIds : h[c].custody \notin {"none", "opening"}}
ReadOnlyGiven == "READ_ONLY" \in given.flags

\* ------------------------------------------------------------------- C1
\* C1 as stated: with a read-only flag and no database file, every connect()
\* that has returned failed with the driver's error (Error::Rusqlite).
C1_AlwaysDriverError ==
    (ReadOnlyGiven /\ ~fileExists) =>
        \A t \in Tasks : res[t].op = "connect" => res[t].kind = "Rusqlite"

\* C1, amended: with a read-only flag and no database file, connect() never
\* yields a handle, for either variant that carries flags and for the pool's
\* request and dedicated_connection() alike; the error it returns is
\* Error::Rusqlite when the worker ran the open to its end and
\* Error::TokioJoin when the worker terminated abnormally.
C1_ConnectFailsWithoutHandle ==
    ReadOnlyGiven =>
        /\ \A c \in ConnIds :
              (conn[c].st = "done" /\ conn[c].found = "no") =>
                  /\ conn[c].open = "Err"
                  /\ h[c].custody = "none"
        /\ \A t \in Tasks :
              (res[t].op = "connect" /\ conn[res[t].id].found # "yes" /\ ~fileExists) =>
                  /\ res[t].kind \in {"Rusqlite", "TokioJoin"}
                  /\ res[t].kind = "Rusqlite" <=> conn[res[t].id].st = "done"
                  /\ res[t].kind = "TokioJoin" <=> conn[res[t].id].st = "aborted"
                  /\ pc[t] = "idle" /\ cur[t] = 0
                  /\ h[res[t].id].custody = "none"

C1_Witness ==
    \E t \in Tasks :
        /\ ReadOnlyGiven /\ given.ctor = "new_with_flags_and_vfs"
        /\ res[t].op = "connect" /\ res[t].kind = "Rusqlite"
        /\ conn[res[t].id].dedicated /\ conn[res[t].id].found = "no"

\* ------------------------------------------------------------------- C2
\* C2: every connection the manager produced is open with the flags its
\* constructor was given (the driver's defaults for new()); through a
\* connection that accepts commands, a read succeeds, a write fails with
\* Error::Rusqlite exactly when the read-only flag was given, and a rejected
\* write leaves the stored rows as they were.
C2_FlagsHonoured ==
    /\ \A c \in Connected :
          h[c].flags = IF given.ctor = "new" THEN DefaultFlags ELSE given.flags
    /\ \A t \in Tasks :
          /\ (res[t].op = "write" /\ res[t].live) =>
                (res[t].kind = "Rusqlite" <=> ReadOnlyGiven)
          /\ (res[t].op = "write" /\ res[t].live /\ ~ReadOnlyGiven) => res[t].kind = "Ok"
          /\ (res[t].op = "read" /\ res[t].live) => res[t].kind = "Ok"
    /\ ReadOnlyGiven => rows = {} /\ written = {}

C2_Witness ==
    \E t \in Tasks :
        /\ ReadOnlyGiven
        /\ res[t].op = "write" /\ res[t].live /\ res[t].kind = "Rusqlite"
        /\ rows = {}

\* ------------------------------------------------------------------- C3
\* C3: a read that succeeds through any handle of the manager returns every
\* value whose INSERT had returned, through whichever handle, before the
\* read began, and nothing that was not committed.
C3_ReadAfterWrite ==
    /\ written = rows
    /\ \A t \in Tasks :
          (res[t].op = "read" /\ res[t].kind = "Ok") =>
              /\ res[t].snap \subseteq res[t].seen
              /\ res[t].seen \subseteq rows

C3_Witness ==
    \E t, u \in Tasks :
        /\ t # u
        /\ res[t].op = "read" /\ res[t].kind = "Ok" /\ res[t].seen = {42}
        /\ res[t].snap = {42}
        /\ res[u].op = "write" /\ res[u].kind = "Ok" /\ res[u].id # res[t].id
        /\ pc[t] = "holding" /\ pc[u] = "holding"

\* ------------------------------------------------------------------- C4
\* C4: every answer has_broken() gave is false, whatever happened to the
\* handle before: also after its is_valid() failed, also when the connection
\* no longer accepts commands.
C4_HasBrokenFalse ==
    \A t \in Tasks : hb[t].called => hb[t].result = FALSE

C4_Witness ==
    \E t \in Tasks :
        /\ hb[t].called /\ hb[t].afterInvalid /\ ~hb[t].result
        /\ ~h[hb[t].id].accepting
        /\ res[t].op = "is_valid" /\ res[t].kind = "Rusqlite"

\* ------------------------------------------------------------------- C5
\* C5: connect() returns Error::Rusqlite exactly when the driver's open
\* failed on a worker that completed, Error::TokioJoin exactly when the
\* worker terminated abnormally, and a handle exactly when the open
\* succeeded on a worker that completed; is_valid() returns the driver's
\* error exactly when the probe failed.
C5_ErrorsDistinct ==
    \A t \in Tasks :
        /\ res[t].op = "connect" =>
              LET cr == conn[res[t].id] IN
              /\ res[t].kind = "Rusqlite" <=> (cr.st = "done" /\ cr.open = "Err")
              /\ res[t].kind = "TokioJoin" <=> cr.st = "aborted"
              /\ res[t].kind = "Ok" <=> (cr.st = "done" /\ cr.open = "Ok")
              /\ res[t].kind = "Ok" =>
                    (pc[t] = "holding" => h[res[t].id].owner = t)
        /\ res[t].op = "is_valid" =>
              /\ res[t].kind = "Rusqlite" <=> res[t].drv = "Err"
              /\ res[t].kind \in {"Ok", "Rusqlite"}

C5_Witness ==
    \E t, u \in Tasks :
        /\ res[t].op = "connect" /\ res[t].kind = "TokioJoin"
        /\ res[u].op = "connect" /\ res[u].kind = "Rusqlite"

\* ------------------------------------------------------------------- C6
\* C6: is_valid() on a handle whose connection still accepts commands
\* returns success (and the handle is handed out again).
C6_LiveHandleValidates ==
    \A t \in Tasks :
        (res[t].op = "is_valid" /\ res[t].live) => res[t].kind = "Ok"

\* ------------------------------------------------------------------- C7
\* C7: at most one operation (the open of a connect(), an is_valid() probe,
\* a caller's statement) is in progress on a handle at any time.
C7_OneOperationPerHandle ==
    \A c \in ConnIds : Cardinality(h[c].busy) <= 1

C7_Witness ==
    \E c, d \in ConnIds, t \in Tasks :
        /\ c # d
        /\ pc[t] = "probing" /\ cur[t] = c /\ h[c].busy # {}
        /\ h[d].busy # {} /\ h[d].custody = "task"

\* ------------------------------------------------------------------- C8
\* The driver call the stored options select.
ExpectedCall ==
    [fn |-> CASE given.ctor = "new" -> "open"
              [] given.ctor = "new_with_flags" -> "open_with_flags"
              [] OTHER -> "open_with_flags_and_vfs",
     path |-> DbPath, flags |-> given.flags, vfs |-> given.vfs]

\* C8 as stated: every connect() that has returned issued exactly one call
\* to the driver.
C8_ExactlyOneCall ==
    \A t \in Tasks : res[t].op = "connect" => conn[res[t].id].ncalls = 1

\* C8, amended: a connect() call issues at most one call to the driver, and
\* exactly one unless its worker was cancelled before it ran; the call is the
\* one the stored mode selects, on the stored path, flags and VFS name; a
\* handle is in the custody of at most one task and the stored options never
\* change.
C8_OneCallPerConnect ==
    /\ options = Construct(given)
    /\ \A c \in ConnIds :
          /\ conn[c].ncalls <= 1
          /\ conn[c].st \in {"running", "done"} =>
                (conn[c].ncalls = 1 /\ conn[c].call = ExpectedCall)
          /\ conn[c].ncalls = 0 => conn[c].st \in {"unused", "queued", "aborted"}
          /\ h[c].custody = "task" =>
                Cardinality({t \in Tasks : cur[t] = c}) = 1
          /\ h[c].custody \in {"idle", "orphan", "destroyed", "none"} =>
                \A t \in Tasks : cur[t] = c => pc[t] = "awaiting"
    /\ \A t \in Tasks :
          (res[t].op = "connect" /\ res[t].kind # "TokioJoin") =>
              conn[res[t].id].ncalls = 1

C8_Witness ==
    \E t \in Tasks :
        /\ given.ctor = "new_with_flags_and_vfs"
        /\ res[t].op = "connect" /\ res[t].kind = "Ok"
        /\ conn[res[t].id].call.fn = "open_with_flags_and_vfs"
        /\ h[res[t].id].owner = t
        /\ nconn = MaxConnects

\* ------------------------------------------------------------------- C9
\* C9: the open of connect() runs on a blocking-pool thread, never on a
\* scheduler thread, while its caller stays suspended in connect() (unless
\* it was cancelled); the probe of is_valid() runs on the thread of the task
\* that holds the handle, as does every statement; and a probe only runs on
\* a runtime on which block_in_place may be called.
C9_DispatchPlacement ==
    /\ \A c \in ConnIds :
          conn[c].st = "running" =>
              /\ \E th \in 1..(MaxWorkerThreads + MaxConnects) :
                    /\ h[c].busy = {<<"open", th>>}
                    /\ th \notin SchedThreads
              /\ conn[c].cancelled = "no" =>
                    (pc[conn[c].caller] = "awaiting" /\ cur[conn[c].caller] = c)
    /\ \A c \in ConnIds :
          (conn[c].st = "queued" /\ conn[c].cancelled = "no") =>
              (pc[conn[c].caller] = "awaiting" /\ cur[conn[c].caller] = c)
    /\ \A t \in Tasks :
          /\ pc[t] = "probing" =>
                /\ h[cur[t]].busy = {<<"probe", thread[t]>>}
                /\ rt.workers > 1 \/ rt.flavor = "multi_thread"
          /\ pc[t] = "executing" => h[cur[t]].busy = {<<"stmt", thread[t]>>}
          /\ thread[t] \in SchedThreads
    /\ \A c \in ConnIds :
          h[c].custody = "task" =>
              \A b \in h[c].busy : b[2] = thread[h[c].owner]

C9_Witness ==
    \E t, u \in Tasks, c \in ConnIds :
        /\ pc[t] = "probing" /\ thread[t] = 2
        /\ conn[c].st = "running" /\ conn[c].caller = u /\ thread[u] = 2

\* ------------------------------------------------------------------ C10
\* C10: cancelling the task that awaits connect() does not stop its worker;
\* a handle the worker opens for a cancelled caller is in nobody's custody,
\* stays so, and is not destroyed by any operation of the manager or the pool.
C10_CancelledOpenOrphaned ==
    [][\A c \in ConnIds :
          /\ (conn[c].cancelled = "no" /\ conn'[c].cancelled # "no") =>
                conn'[c].st = conn[c].st
          /\ h[c].custody = "orphan" =>
                /\ h[c].owner = 0 /\ conn[c].cancelled # "no"
                /\ \A t \in Tasks : cur[t] # c
                /\ \/ h'[c] = h[c]
                   \/ (h'[c].custody = "destroyed" /\ h'[c].destroyedBy = "runtime")
      ]_vars

C10_Witness ==
    \E c \in ConnIds :
        /\ conn[c].cancelled = "in_flight"
        /\ conn[c].st = "done" /\ conn[c].open = "Ok"
        /\ h[c].custody = "orphan" /\ h[c].accepting
        /\ pc[conn[c].caller] = "cancelled"

====
